---- MODULE Spec2Model ----
(***************************************************************************)
(* Order-lifecycle controller of the storefront client (src/App.tsx).      *)
(*                                                                         *)
(* The App component is modelled as a state machine over its React state   *)
(* (useState cells), the resources its effects own (the realtime channel   *)
(* of the supabase client), the JavaScript heap cells the cart lives in,   *)
(* and the suspended invocations of the async handler handlePlaceOrder.    *)
(*                                                                         *)
(* A state update that changes `currentUser` re-renders the component and  *)
(* re-runs the effect whose dependency list is [currentUser]: React runs   *)
(* the previous effect's cleanup and then the effect body.  That is part   *)
(* of handling the update, so it is part of the action that makes it.      *)
(***************************************************************************)
EXTENDS Integers, Sequences, FiniteSets, TLC

VARIABLES
    phase,        \* "constructed" | "running" | "unmounted" (component lifecycle)
    currentUser,  \* useState currentUser: a user or NoUser (null)
    view,         \* useState view
    channels,     \* channels open on the supabase client: set of [id, user]
    subscription, \* the channel id the effect's cleanup closure holds, or 0
    chanLog,      \* client calls made by the last step: seq of "subscribe"/"removeChannel"
    event,        \* the order-update payload handled by the last step, or NoEvent
    dispatched,   \* notifications dispatched by the last step (one per callback that fired)
    arrs,         \* heap: the arrays allocated so far, each a sequence of object addresses
    objs,         \* heap: the cart-entry objects allocated so far, each [id, quantity]
    cart,         \* useState cart: the address of the array that is the current cart
    tasks,        \* the invocations of handlePlaceOrder, each with its closure and position
    orders,       \* the Order objects handlePlaceOrder created, in creation order
    persisted,    \* per created order, what became of its Store.saveOrder call
    lastOrder,    \* the array last handed to Store.saveLastOrder, or 0
    lastOp,       \* the cart operation made by the last step, or NoOp
    deliveryFee,  \* what Store.getDeliveryFee() returns at present
    shown,        \* the total the CHECKOUT view displays since its last render, or NotShown
    notifs,       \* schedule calls of triggerStatusNotification not yet fired: seq of
                  \* [id, state, haptic]
    logoClickCount, \* useState logoClickCount
    showPinModal, \* useState showPinModal
    timers,       \* the pending setTimeout timers of the logo effect, each named by the
                  \* number of the tap after which it was set
    armed,        \* the timer the cleanup closure of the logo effect holds, or 0
    taps,         \* logo taps so far
    prompts,      \* how often the effect has called setShowPinModal(true)
    streak,       \* taps since the last prompt or the last 2-second gap
    gateLog       \* what the last step did at the gate: [op, timer]

sessionVars == <<phase, currentUser, view, channels, subscription, chanLog, event, dispatched>>

orderVars == <<arrs, objs, cart, tasks, orders, persisted, lastOrder, lastOp>>

checkoutVars == <<deliveryFee, shown>>

gateVars == <<logoClickCount, showPinModal, timers, armed, taps, prompts, streak, gateLog>>

vars == <<sessionVars, orderVars, checkoutVars, notifs, gateVars>>

----------------------------------------------------------------------------
(* Values *)

NoUser == "null"
Users == {"asha", "ravi"}

\* UserProfile.phone
Phone(u) == IF u = "asha" THEN "p1" ELSE IF u = "ravi" THEN "p2" ELSE "undefined"

NoDetails == "nodetails"
\* phones that an order row can carry in userDetails (p9: a customer who is not a user here)
EventPhones == {"p1", "p2", "p9"}

Undefined == "undefined"
OrderStatus == {"PENDING", "CONFIRMED", "DELIVERED", "CANCELLED"}
\* a status column can carry a value outside the client's enum, and payload.old
\* can lack the column
StatusValues == OrderStatus \cup {"PREPARING", Undefined}

NoEvent == [phone |-> "none", oldStatus |-> Undefined, newStatus |-> Undefined]
Payloads == [phone : EventPhones \cup {NoDetails}, oldStatus : StatusValues, newStatus : StatusValues]

Views == {"LOGIN", "HOME", "CART", "CHECKOUT", "SUCCESS", "ADMIN_DASHBOARD", "MY_ORDERS"}

----------------------------------------------------------------------------
(* Realtime watcher: the effect of lines 43-72 *)

\* supabase.removeChannel(subscription)
RemoveChannel(chans, sub) == {c \in chans : c.id # sub}

\* mutation: the effect returns no cleanup
EffectCleanupMissing(chans, sub) == chans

\* the cleanup the previous run of the effect returned (none when it returned early)
EffectCleanup(chans, sub) == IF sub = 0 THEN chans ELSE RemoveChannel(chans, sub)

\* a channel id the client has not in use
FreshChannel(chans) == CHOOSE i \in 1..(Cardinality(chans) + 1) : \A c \in chans : c.id # i

\* mutation: the body lacks the early return of line 44
RunWatcherEffectNoGuard(chans, sub, user) ==
    LET cleaned == EffectCleanup(chans, sub)
        removed == IF sub = 0 THEN <<>> ELSE <<"removeChannel">>
        id == FreshChannel(cleaned)
    IN  [channels |-> cleaned \cup {[id |-> id, user |-> user]},
         subscription |-> id,
         log |-> removed \o <<"subscribe">>]

\* One re-run of the effect after currentUser changed to `user`:
\* cleanup of the previous run, then the body.
RunWatcherEffect(chans, sub, user) ==
    LET cleaned == EffectCleanup(chans, sub)
        removed == IF sub = 0 THEN <<>> ELSE <<"removeChannel">>
    IN  IF user = NoUser
        THEN [channels |-> cleaned, subscription |-> 0, log |-> removed]
        ELSE LET id == FreshChannel(cleaned)
             IN  [channels |-> cleaned \cup {[id |-> id, user |-> user]},
                  subscription |-> id,
                  log |-> removed \o <<"subscribe">>]

\* mutation: the ownership test only looks for the embedded details
OwnsOrderAnyPhone(payload, user) == payload.phone # NoDetails

\* line 58: newOrder.userDetails && newOrder.userDetails.phone === currentUser.phone
\* (currentUser is the value the callback's closure captured)
OwnsOrder(payload, user) == payload.phone # NoDetails /\ payload.phone = Phone(user)

\* mutation: the transition test only looks at the new record
StatusChangedNewOnly(payload) == payload.newStatus # "PENDING"

\* line 61: newOrder.status !== oldOrder.status
StatusChanged(payload) == payload.newStatus # payload.oldStatus

\* mutation: the switch on the status is missing
NotificationTitleDefault(status) == "Order Update"

\* lines 75-91: title chosen by the new status (the titles without their emoji)
NotificationTitle(status) ==
    CASE status = "CONFIRMED" -> "Order Confirmed!"
      [] status = "DELIVERED" -> "Order Delivered!"
      [] status = "CANCELLED" -> "Order Cancelled"
      [] OTHER -> "Order Update"

\* lines 76-90: body chosen by the new status
NotificationBody(status) ==
    CASE status = "CONFIRMED" -> "We've received your order and are preparing it."
      [] status = "DELIVERED" -> "Your tiffins have been delivered. Enjoy your meal!"
      [] status = "CANCELLED" ->
           "Your order was cancelled. Please contact support if this was a mistake."
      [] OTHER -> "Your order status has changed to " \o status

\* pending or in-flight status notifications explored at a time
MaxNotifs == 2

\* values of Math.floor(Math.random() * 100000) explored (line 98)
RandomIds == {999, 41213}

\* the id of the notification handlePlaceOrder schedules (line 227)
MissYouId == 999

\* line 93: the schedule call is made and awaited; line 109 has not run
Requested(id) == [id |-> id, state |-> "requested", haptic |-> FALSE]

\* lines 52-65: the callback of one channel; the notifications it dispatches
Callback(chan, payload) ==
    IF OwnsOrder(payload, chan.user) /\ StatusChanged(payload)
    THEN <<[title |-> NotificationTitle(payload.newStatus),
            body |-> NotificationBody(payload.newStatus),
            status |-> payload.newStatus,
            phone |-> payload.phone]>>
    ELSE <<>>

RECURSIVE Deliver(_, _)
\* the backend hands the payload to every open channel's callback
Deliver(chans, payload) ==
    IF chans = {} THEN <<>>
    ELSE LET c == CHOOSE x \in chans : \A y \in chans : x.id <= y.id
         IN  Callback(c, payload) \o Deliver(chans \ {c}, payload)

----------------------------------------------------------------------------
(* Cart aggregator: lines 173-192, on the heap *)

\* the menu items a customer can pick (MenuItem.id)
Menu == {"dosa", "idli"}

MaxDelta == 2
\* the delta of updateCartQuantity
Deltas == (0 - MaxDelta)..MaxDelta

\* largest quantity of one entry explored
MaxQty == 2

\* the quantities an entry can hold
Quantities == 0..MaxQty

NoOp == [op |-> "none", id |-> "none", delta |-> 0, before |-> 0]

Max(a, b) == IF a >= b THEN a ELSE b

\* the entries of array `a` as values, in order
Deref(h, a) == [i \in DOMAIN h.arrs[a] |-> h.objs[h.arrs[a][i]]]

\* how many of the first i entries of sequence `a` have id `itemId`
MatchesUpTo(h, a, itemId, i) == Cardinality({j \in 1..i : h.objs[a[j]].id = itemId})

\* the index of the k-th entry of `a` with id `itemId`
NthMatch(h, a, itemId, k) ==
    CHOOSE i \in DOMAIN a : h.objs[a[i]].id = itemId /\ MatchesUpTo(h, a, itemId, i) = k

\* prev.map(i => i.id === itemId ? { ...i, quantity: quantity[i.quantity] } : i):
\* a new array; a new object for each matching entry, the others shared
MapMatching(h, a, itemId, quantity) ==
    LET n == MatchesUpTo(h, a, itemId, Len(a))
        fresh == [k \in 1..n |->
                    [id |-> itemId,
                     quantity |-> quantity[h.objs[a[NthMatch(h, a, itemId, k)]].quantity]]]
    IN  [arr |-> [i \in DOMAIN a |->
                    IF h.objs[a[i]].id = itemId
                    THEN Len(h.objs) + MatchesUpTo(h, a, itemId, i)
                    ELSE a[i]],
         objs |-> h.objs \o fresh]

\* the heap with one more array, and the new array as the cart
WithCart(h, newObjs, newArr) ==
    [arrs |-> Append(h.arrs, newArr), objs |-> newObjs, cart |-> Len(h.arrs) + 1]

\* mutation: the found entry is incremented in place and the array copied
AddToCartUpdaterInPlace(h, prev, item) ==
    LET a == h.arrs[prev]
    IN  IF \E i \in DOMAIN a : h.objs[a[i]].id = item
        THEN LET e == a[NthMatch(h, a, item, 1)]
             IN  WithCart(h, [h.objs EXCEPT ![e].quantity = @ + 1], a)
        ELSE WithCart(h, Append(h.objs, [id |-> item, quantity |-> 1]),
                      Append(a, Len(h.objs) + 1))

\* mutation: a new entry is appended whether or not the id is in the cart
AddToCartUpdaterAlwaysAppend(h, prev, item) ==
    WithCart(h, Append(h.objs, [id |-> item, quantity |-> 1]),
             Append(h.arrs[prev], Len(h.objs) + 1))

\* mutation: a new entry is put in front of the existing ones
AddToCartUpdaterPrepend(h, prev, item) ==
    LET a == h.arrs[prev]
    IN  IF \E i \in DOMAIN a : h.objs[a[i]].id = item
        THEN LET m == MapMatching(h, a, item, [q \in Quantities |-> q + 1])
             IN  WithCart(h, m.objs, m.arr)
        ELSE WithCart(h, Append(h.objs, [id |-> item, quantity |-> 1]),
                      <<Len(h.objs) + 1>> \o a)

\* lines 174-180: the updater of addToCart applied to the array `prev`
AddToCartUpdater(h, prev, item) ==
    LET a == h.arrs[prev]
    IN  IF \E i \in DOMAIN a : h.objs[a[i]].id = item
        THEN LET m == MapMatching(h, a, item, [q \in Quantities |-> q + 1])
             IN  WithCart(h, m.objs, m.arr)
        ELSE WithCart(h, Append(h.objs, [id |-> item, quantity |-> 1]),
                      Append(a, Len(h.objs) + 1))

\* mutation: the zero-quantity entries are not filtered out
UpdateQuantityUpdaterNoFilter(h, prev, itemId, delta) ==
    LET m == MapMatching(h, h.arrs[prev], itemId, [q \in Quantities |-> Max(0, q + delta)])
    IN  WithCart(h, m.objs, m.arr)

\* mutation: the delta is applied to every entry, whatever its id
UpdateQuantityUpdaterAll(h, prev, itemId, delta) ==
    LET a == h.arrs[prev]
        fresh == [i \in DOMAIN a |-> [h.objs[a[i]] EXCEPT !.quantity = Max(0, @ + delta)]]
        newObjs == h.objs \o fresh
        arr == [i \in DOMAIN a |-> Len(h.objs) + i]
    IN  WithCart(h, newObjs, SelectSeq(arr, LAMBDA r : newObjs[r].quantity > 0))

\* lines 184-191: the updater of updateCartQuantity applied to the array `prev`
UpdateQuantityUpdater(h, prev, itemId, delta) ==
    LET m == MapMatching(h, h.arrs[prev], itemId, [q \in Quantities |-> Max(0, q + delta)])
    IN  WithCart(h, m.objs, SelectSeq(m.arr, LAMBDA r : m.objs[r].quantity > 0))

Heap == [arrs |-> arrs, objs |-> objs]

\* the current cart as values
CartItems == Deref(Heap, cart)

\* the quantity the entry with id `itemId` has in `items`, 0 when there is none
QuantityOf(items, itemId) ==
    IF \E i \in DOMAIN items : items[i].id = itemId
    THEN items[CHOOSE i \in DOMAIN items : items[i].id = itemId].quantity
    ELSE 0

RECURSIVE Dedupe(_)
\* the sequence without the repeats of an element, first occurrences kept
Dedupe(seq) ==
    IF seq = <<>> THEN <<>>
    ELSE LET init == Dedupe(SubSeq(seq, 1, Len(seq) - 1))
             x == seq[Len(seq)]
         IN  IF \E i \in DOMAIN init : init[i] = x THEN init ELSE Append(init, x)

Pos(seq, x) == CHOOSE i \in DOMAIN seq : seq[i] = x

RECURSIVE Flatten(_)
Flatten(seqs) == IF seqs = <<>> THEN <<>> ELSE Head(seqs) \o Flatten(Tail(seqs))

\* The references the program holds, in a fixed order: the cart state, the
\* closures of the invocations, the created orders, the last-order shortcut.
Roots(raw) ==
    <<raw.cart>> \o [t \in DOMAIN raw.tasks |-> raw.tasks[t].cart]
                \o [k \in DOMAIN raw.orders |-> raw.orders[k].items]
                \o <<raw.lastOrder>>

\* Garbage collection: the arrays and objects no reference reaches are dropped
\* and the live ones renumbered in the order the references reach them.  An
\* address carries no meaning beyond identity, so this changes nothing the
\* program can observe.
Collected(raw) ==
    LET liveArrs == Dedupe(SelectSeq(Roots(raw), LAMBDA r : r # 0))
        liveObjs == Dedupe(Flatten([i \in DOMAIN liveArrs |-> raw.arrs[liveArrs[i]]]))
        NewArr(a) == IF a = 0 THEN 0 ELSE Pos(liveArrs, a)
    IN  [arrs |-> [i \in DOMAIN liveArrs |->
                     [j \in DOMAIN raw.arrs[liveArrs[i]] |->
                        Pos(liveObjs, raw.arrs[liveArrs[i]][j])]],
         objs |-> [i \in DOMAIN liveObjs |-> raw.objs[liveObjs[i]]],
         cart |-> NewArr(raw.cart),
         tasks |-> [t \in DOMAIN raw.tasks |-> [raw.tasks[t] EXCEPT !.cart = NewArr(@)]],
         orders |-> [k \in DOMAIN raw.orders |-> [raw.orders[k] EXCEPT !.items = NewArr(@)]],
         lastOrder |-> NewArr(raw.lastOrder)]

\* the next heap and references
Collect(raw) ==
    \E n \in {Collected(raw)} :
        /\ arrs' = n.arrs
        /\ objs' = n.objs
        /\ cart' = n.cart
        /\ tasks' = n.tasks
        /\ orders' = n.orders
        /\ lastOrder' = n.lastOrder

----------------------------------------------------------------------------
(* Pricing: lines 195-200 and 313-318 *)

\* MenuItem.price
Price(itemId) == IF itemId = "dosa" THEN 100 ELSE 35

\* the values Store.getDeliveryFee() can return
DeliveryFees == {20, 40}

PlatformFee == 5

NotShown == 0 - 1

RECURSIVE Reduce(_, _)
\* cart.reduce((acc, i) => acc + i.price * i.quantity, acc)
Reduce(items, acc) ==
    IF items = <<>> THEN acc
    ELSE Reduce(Tail(items), acc + Price(Head(items).id) * Head(items).quantity)

\* mutation: the fraction is cut off (Math.floor)
MathFloor(num, den) == num \div den

\* Math.round(num / den) for num >= 0, den > 0: the integer nearest to the
\* quotient, the larger one of the two when it lies halfway
MathRound(num, den) == (2 * num + den) \div (2 * den)

\* Math.round(itemTotal * 0.05)
Gst(itemTotal) == MathRound(itemTotal * 5, 100)

\* itemTotal + platformFee + deliveryFee + gst
FinalTotal(items, fee) ==
    LET itemTotal == Reduce(items, 0)
    IN  itemTotal + PlatformFee + fee + Gst(itemTotal)

\* the render that follows a state update, with the view and the cart entries
\* the update leaves: the CHECKOUT branch computes the total it hands to the
\* Checkout view with the fee the store returns then
Rendered(nextView, nextItems) ==
    /\ shown' = IF nextView = "CHECKOUT" THEN FinalTotal(nextItems, deliveryFee) ELSE NotShown
    /\ UNCHANGED deliveryFee

\* a step that sets no state of the component: nothing is rendered anew
NotRendered == UNCHANGED <<deliveryFee, shown>>

----------------------------------------------------------------------------
(* Admin gate: lines 137-154 *)

\* logo taps explored per run
MaxTaps == 10

Threshold == 5

NoGateOp == [op |-> "none", timer |-> 0]

\* a step that is no tap, no timer and no use of the PIN prompt
NoGateStep ==
    /\ gateLog' = NoGateOp
    /\ UNCHANGED <<logoClickCount, showPinModal, timers, armed, taps, prompts, streak>>

\* mutation: the effect returns no cleanup
LogoEffectCleanupMissing(ts, a) == ts

\* line 149: clearTimeout(timer), timer being what that run of the effect set
LogoEffectCleanup(ts, a) == ts \ {a}

\* mutation: the threshold branch does not reset the counter
RunLogoEffectNoReset(g, tap) ==
    LET cleaned == LogoEffectCleanup(g.timers, g.armed)
        set == IF g.count > 0 THEN cleaned \cup {tap} ELSE cleaned
        arm == IF g.count > 0 THEN tap ELSE 0
    IN  IF g.count >= Threshold
        THEN [count |-> g.count, timers |-> set, armed |-> arm, modal |-> TRUE,
              prompts |-> g.prompts + 1]
        ELSE [count |-> g.count, timers |-> set, armed |-> arm, modal |-> g.modal,
              prompts |-> g.prompts]

\* The effect of lines 138-150 after logoClickCount changed to g.count: the
\* cleanup of the previous run, then the body.  In the threshold branch the
\* body sets logoClickCount to 0, which runs the effect once more: its cleanup
\* clears the timer just set and its body, with count 0, sets none.
RunLogoEffect(g, tap) ==
    LET cleaned == LogoEffectCleanup(g.timers, g.armed)
        set == IF g.count > 0 THEN cleaned \cup {tap} ELSE cleaned
        arm == IF g.count > 0 THEN tap ELSE 0
    IN  IF g.count >= Threshold
        THEN [count |-> 0, timers |-> LogoEffectCleanup(set, arm), armed |-> 0,
              modal |-> TRUE, prompts |-> g.prompts + 1]
        ELSE [count |-> g.count, timers |-> set, armed |-> arm, modal |-> g.modal,
              prompts |-> g.prompts]

Gate == [count |-> logoClickCount, timers |-> timers, armed |-> armed,
         modal |-> showPinModal, prompts |-> prompts]

SetGate(g) ==
    /\ logoClickCount' = g.count
    /\ timers' = g.timers
    /\ armed' = g.armed
    /\ showPinModal' = g.modal
    /\ prompts' = g.prompts

----------------------------------------------------------------------------
(* Session actions *)

\* a step in which no order-update event is handled
Quiet == /\ event' = NoEvent
         /\ dispatched' = <<>>

\* ... and no schedule call of triggerStatusNotification progresses
NoNotifStep == UNCHANGED notifs

\* a step that is no cart operation and runs no part of handlePlaceOrder
NoOrderStep ==
    /\ lastOp' = NoOp
    /\ UNCHANGED <<arrs, objs, cart, tasks, orders, persisted, lastOrder>>

\* a step that touches neither the session nor the realtime client
NoSessionStep ==
    /\ Quiet
    /\ NoNotifStep
    /\ chanLog' = <<>>
    /\ UNCHANGED <<phase, currentUser, channels, subscription>>

\* lines 29-40: the mount effect; Store.getCurrentUser() gives a saved user or null
InitialLoad ==
    /\ phase = "constructed"
    /\ phase' = "running"
    /\ \E savedUser \in Users \cup {NoUser} :
         LET r == RunWatcherEffect(channels, subscription, savedUser)
         IN  /\ currentUser' = savedUser
             /\ view' = IF savedUser # NoUser THEN "HOME" ELSE view
             /\ channels' = r.channels
             /\ subscription' = r.subscription
             /\ chanLog' = r.log
             /\ Rendered(IF savedUser # NoUser THEN "HOME" ELSE view, CartItems)
    /\ Quiet
    /\ NoNotifStep
    /\ NoOrderStep
    /\ NoGateStep

\* lines 156-160
HandleLoginSuccess ==
    /\ phase = "running"
    /\ \E user \in Users :
         LET r == RunWatcherEffect(channels, subscription, user)
         IN  /\ currentUser' = user
             /\ view' = "HOME"
             /\ channels' = r.channels
             /\ subscription' = r.subscription
             /\ chanLog' = r.log
    /\ Quiet
    /\ NoNotifStep
    /\ NoOrderStep
    /\ NoGateStep
    /\ Rendered("HOME", CartItems)
    /\ UNCHANGED phase

\* lines 162-166; the effect re-runs only when the dependency changed
HandleLogout ==
    /\ phase = "running"
    /\ LET r == IF currentUser = NoUser
                THEN [channels |-> channels, subscription |-> subscription, log |-> <<>>]
                ELSE RunWatcherEffect(channels, subscription, NoUser)
       IN  /\ currentUser' = NoUser
           /\ view' = "LOGIN"
           /\ channels' = r.channels
           /\ subscription' = r.subscription
           /\ chanLog' = r.log
    /\ Quiet
    /\ NoNotifStep
    /\ NoOrderStep
    /\ NoGateStep
    /\ Rendered("LOGIN", CartItems)
    /\ UNCHANGED phase

\* component teardown: React runs the cleanup of every effect (lines 69-71)
Unmount ==
    /\ phase = "running"
    /\ phase' = "unmounted"
    /\ channels' = EffectCleanup(channels, subscription)
    /\ subscription' = 0
    /\ chanLog' = IF subscription = 0 THEN <<>> ELSE <<"removeChannel">>
    /\ Quiet
    /\ NoNotifStep
    /\ NoOrderStep
    /\ shown' = NotShown
    /\ timers' = LogoEffectCleanup(timers, armed)
    /\ armed' = 0
    /\ gateLog' = NoGateOp
    /\ UNCHANGED <<logoClickCount, showPinModal, taps, prompts, streak>>
    /\ UNCHANGED <<currentUser, view, deliveryFee>>

\* the backend emits an UPDATE of an orders row (lines 49-66)
RealtimeEvent ==
    /\ phase # "constructed"
    /\ \E payload \in Payloads :
         /\ event' = payload
         /\ dispatched' = Deliver(channels, payload)
         /\ Len(notifs) + Len(Deliver(channels, payload)) <= MaxNotifs
         /\ \E ids \in [DOMAIN Deliver(channels, payload) -> RandomIds] :
              notifs' = notifs \o [i \in DOMAIN ids |-> Requested(ids[i])]
    /\ chanLog' = <<>>
    /\ NoOrderStep
    /\ NoGateStep
    /\ NotRendered
    /\ UNCHANGED <<phase, currentUser, view, channels, subscription>>

\* a step of the notification plugin or of a suspended triggerStatusNotification
NotificationStep ==
    /\ Quiet
    /\ chanLog' = <<>>
    /\ NoOrderStep
    /\ NoGateStep
    /\ NotRendered
    /\ UNCHANGED <<phase, currentUser, view, channels, subscription>>

Without(seq, i) == SubSeq(seq, 1, i - 1) \o SubSeq(seq, i + 1, Len(seq))

\* LocalNotifications.schedule resolves; triggerStatusNotification resumes
\* after its await and calls Haptics.notification (line 109)
ScheduleResolves ==
    /\ \E i \in DOMAIN notifs :
         /\ notifs[i].state = "requested"
         /\ notifs' = [notifs EXCEPT ![i] = [@ EXCEPT !.state = "pending", !.haptic = TRUE]]
    /\ NotificationStep

\* LocalNotifications.schedule rejects: the await throws, nothing is pending
\* and line 109 is not reached
ScheduleRejects ==
    /\ \E i \in DOMAIN notifs :
         /\ notifs[i].state = "requested"
         /\ notifs' = Without(notifs, i)
    /\ NotificationStep

\* a pending notification reaches its time (100 ms after the call) and is shown
NotificationFires ==
    /\ \E i \in DOMAIN notifs :
         /\ notifs[i].state = "pending"
         /\ notifs' = Without(notifs, i)
    /\ NotificationStep

----------------------------------------------------------------------------
(* Order submission pipeline: handlePlaceOrder, lines 194-248 *)

\* invocations of handlePlaceOrder explored per run
MaxTasks == 2
TaskIds == 1..MaxTasks

\* mutation: the cart is cleared and the view switched before the order is saved
PlaceOrderProgramClearFirst ==
    << [op |-> "newOrder",      await |-> FALSE, caught |-> FALSE],
       [op |-> "setCart",       await |-> FALSE, caught |-> FALSE],
       [op |-> "setView",       await |-> FALSE, caught |-> FALSE],
       [op |-> "saveOrder",     await |-> FALSE, caught |-> FALSE],
       [op |-> "saveLastOrder", await |-> FALSE, caught |-> FALSE],
       [op |-> "haptic",        await |-> TRUE,  caught |-> TRUE],
       [op |-> "schedule",      await |-> TRUE,  caught |-> TRUE],
       [op |-> "handoff",       await |-> FALSE, caught |-> FALSE] >>

\* The statements of handlePlaceOrder in program order.  `await` marks a
\* suspension point, `caught` a statement inside try { } catch (e) { }.
PlaceOrderProgram ==
    << [op |-> "newOrder",      await |-> FALSE, caught |-> FALSE],   \* 195-211
       [op |-> "saveOrder",     await |-> FALSE, caught |-> FALSE],   \* 213
       [op |-> "saveLastOrder", await |-> FALSE, caught |-> FALSE],   \* 214
       [op |-> "haptic",        await |-> TRUE,  caught |-> TRUE],    \* 217-219
       [op |-> "schedule",      await |-> TRUE,  caught |-> TRUE],    \* 222-231
       [op |-> "setCart",       await |-> FALSE, caught |-> FALSE],   \* 233
       [op |-> "setView",       await |-> FALSE, caught |-> FALSE],   \* 234
       [op |-> "handoff",       await |-> FALSE, caught |-> FALSE] >> \* 237-247

Finished == Len(PlaceOrderProgram) + 1

IdleTask ==
    [pc |-> 0, cart |-> 0, order |-> 0, fee |-> 0, haptic |-> "none", sched |-> "none",
     handoff |-> "none", waiting |-> "none", rejected |-> FALSE, trace |-> <<>>]

\* the state one invocation reads and writes, with the invocation itself
Context(t) ==
    [arrs |-> arrs, objs |-> objs, cart |-> cart, view |-> view, orders |-> orders,
     persisted |-> persisted, lastOrder |-> lastOrder, deliveryFee |-> deliveryFee,
     task |-> tasks[t]]

\* one statement; `opened` is whether window.open succeeds
ExecStatement(c, s, opened) ==
    LET t == c.task
        adv == [t EXCEPT !.pc = @ + 1, !.trace = Append(@, s.op)]
    IN  CASE s.op = "newOrder" ->
               [c EXCEPT !.orders = Append(@, [id |-> Len(@) + 1, items |-> t.cart,
                                                totalAmount |-> FinalTotal(Deref(c, t.cart),
                                                                           c.deliveryFee),
                                                status |-> "PENDING"]),
                         !.persisted = Append(@, "notinvoked"),
                         !.task = [adv EXCEPT !.order = Len(c.orders) + 1,
                                              !.fee = c.deliveryFee]]
          [] s.op = "saveOrder" ->
               [c EXCEPT !.persisted[t.order] = "pending", !.task = adv]
          [] s.op = "saveLastOrder" ->
               [c EXCEPT !.lastOrder = t.cart, !.task = adv]
          [] s.op = "haptic" ->
               [c EXCEPT !.task = [adv EXCEPT !.haptic = "pending", !.waiting = "haptic"]]
          [] s.op = "schedule" ->
               [c EXCEPT !.task = [adv EXCEPT !.sched = "pending", !.waiting = "schedule"]]
          [] s.op = "setCart" ->
               [c EXCEPT !.arrs = Append(@, <<>>), !.cart = Len(c.arrs) + 1, !.task = adv]
          [] s.op = "setView" ->
               [c EXCEPT !.view = "SUCCESS", !.task = adv]
          [] s.op = "handoff" ->
               [c EXCEPT !.task = [adv EXCEPT !.handoff = IF opened THEN "opened" ELSE "failed",
                                              !.rejected = ~opened]]

RECURSIVE Exec(_, _)
\* run the invocation from its position to its next suspension point or its end
Exec(c, opened) ==
    IF c.task.pc >= Finished THEN c
    ELSE LET s == PlaceOrderProgram[c.task.pc]
             d == ExecStatement(c, s, opened)
         IN  IF s.await THEN d ELSE Exec(d, opened)

\* the settled result of the call the invocation awaits
Awaited(task) == IF task.waiting = "haptic" THEN task.haptic ELSE task.sched

\* mutation: the awaited calls are not wrapped in try/catch
ContinueUncaught(c, opened) ==
    LET t == c.task
    IN  IF Awaited(t) = "failed"
        THEN [c EXCEPT !.task = [t EXCEPT !.pc = Finished, !.waiting = "none",
                                          !.rejected = TRUE]]
        ELSE Exec([c EXCEPT !.task = [t EXCEPT !.waiting = "none"]], opened)

\* the continuation after the awaited call settled: a rejection outside a
\* try block rejects the whole invocation
Continue(c, opened) ==
    LET t == c.task
        s == PlaceOrderProgram[t.pc - 1]
    IN  IF Awaited(t) = "failed" /\ ~s.caught
        THEN [c EXCEPT !.task = [t EXCEPT !.pc = Finished, !.waiting = "none",
                                          !.rejected = TRUE]]
        ELSE Exec([c EXCEPT !.task = [t EXCEPT !.waiting = "none"]], opened)

Commit(c, t) ==
    /\ Collect([arrs |-> c.arrs, objs |-> objs, cart |-> c.cart,
                tasks |-> [tasks EXCEPT ![t] = c.task],
                orders |-> c.orders, lastOrder |-> c.lastOrder])
    /\ view' = c.view
    /\ persisted' = c.persisted
    /\ lastOp' = IF c.cart # cart THEN [NoOp EXCEPT !.op = "clear"] ELSE NoOp
    /\ IF c.cart # cart \/ c.view # view
       THEN Rendered(c.view, Deref(c, c.cart))
       ELSE NotRendered
    /\ NoGateStep

\* the Checkout view calls onPlaceOrder (line 320): the synchronous part of
\* handlePlaceOrder, up to its first await, with the cart of the current render
HandlePlaceOrder ==
    /\ phase = "running"
    /\ view = "CHECKOUT"
    /\ \E t \in TaskIds :
         /\ tasks[t].pc = 0
         /\ \A u \in TaskIds : u < t => tasks[u].pc # 0
         /\ \E opened \in BOOLEAN :
              \E c \in {Exec([Context(t) EXCEPT !.task = [IdleTask EXCEPT !.pc = 1, !.cart = cart]],
                            opened)} : Commit(c, t)
    /\ NoSessionStep

\* the first submission of a session; the specifications below follow one
\* submission from the tap to its end
FirstPlaceOrder ==
    /\ orders = <<>>
    /\ HandlePlaceOrder

\* a submission made when every earlier one has run to its end
PlaceOrderWhenIdle ==
    /\ \A t \in TaskIds : tasks[t].pc \in {0, Finished}
    /\ HandlePlaceOrder

\* lines 222-231: the notifications the schedule calls of handlePlaceOrder have
\* registered; they are due 48 hours later
ScheduledByOrders ==
    [k \in DOMAIN SelectSeq(tasks, LAMBDA task : task.sched = "ok") |->
        [id |-> MissYouId, state |-> "pending", haptic |-> FALSE]]

\* the plugin settles the promise of the call invocation t awaits
Settle(t, result) ==
    /\ tasks[t].waiting # "none"
    /\ Awaited(tasks[t]) = "pending"
    /\ tasks' = [tasks EXCEPT ![t] = IF @.waiting = "haptic"
                                      THEN [@ EXCEPT !.haptic = result]
                                      ELSE [@ EXCEPT !.sched = result]]
    /\ lastOp' = NoOp
    /\ UNCHANGED <<arrs, objs, cart, orders, persisted, lastOrder, view>>
    /\ NotRendered
    /\ NoGateStep
    /\ NoSessionStep

\* Haptics.notification / LocalNotifications.schedule resolves
SideEffectResolves == \E t \in TaskIds : Settle(t, "ok")

\* Haptics.notification / LocalNotifications.schedule rejects
SideEffectRejects == \E t \in TaskIds : Settle(t, "failed")

\* handlePlaceOrder resumes after the call it awaits has settled
Resume(t) ==
    /\ tasks[t].waiting # "none"
    /\ Awaited(tasks[t]) \in {"ok", "failed"}
    /\ \E opened \in BOOLEAN : \E c \in {Continue(Context(t), opened)} : Commit(c, t)
    /\ NoSessionStep

ResumePlaceOrder == \E t \in TaskIds : Resume(t)

\* the store finishes a saveOrder call: the order is saved, or the save failed
PersistSettles ==
    /\ \E k \in DOMAIN persisted, result \in {"saved", "failed"} :
         /\ persisted[k] = "pending"
         /\ persisted' = [persisted EXCEPT ![k] = result]
    /\ lastOp' = NoOp
    /\ UNCHANGED <<arrs, objs, cart, tasks, orders, lastOrder, view>>
    /\ NotRendered
    /\ NoGateStep
    /\ NoSessionStep

\* the store's configuration changes the delivery fee (by time or zone); the
\* component is not told and does not render
DeliveryFeeChanges ==
    /\ \E fee \in DeliveryFees \ {deliveryFee} : deliveryFee' = fee
    /\ UNCHANGED <<shown, view>>
    /\ NoOrderStep
    /\ NoGateStep
    /\ NoSessionStep

\* setCart(updater) with the array the updater returned
SetCart(r) ==
    /\ \A i \in DOMAIN r.arrs[r.cart] : r.objs[r.arrs[r.cart][i]].quantity <= MaxQty
    /\ Collect([arrs |-> r.arrs, objs |-> r.objs, cart |-> r.cart,
                tasks |-> tasks, orders |-> orders, lastOrder |-> lastOrder])
    /\ Rendered(view, Deref(r, r.cart))
    /\ NoGateStep
    /\ UNCHANGED <<persisted, view>>

\* lines 173-181, called by the Menu of the HOME view (line 365)
AddToCart ==
    /\ phase = "running"
    /\ view = "HOME"
    /\ \E item \in Menu :
         /\ \E r \in {AddToCartUpdater(Heap, cart, item)} : SetCart(r)
         /\ lastOp' = [op |-> "addToCart", id |-> item, delta |-> 1,
                        before |-> QuantityOf(CartItems, item)]
    /\ NoSessionStep

\* lines 183-192, called by the Menu of the HOME view and by the CART view
UpdateCartQuantity ==
    /\ phase = "running"
    /\ view \in {"HOME", "CART"}
    /\ \E itemId \in Menu, delta \in Deltas :
         /\ \E r \in {UpdateQuantityUpdater(Heap, cart, itemId, delta)} : SetCart(r)
         /\ lastOp' = [op |-> "updateQuantity", id |-> itemId, delta |-> delta,
                        before |-> QuantityOf(CartItems, itemId)]
    /\ NoSessionStep

\* the setView calls of the view routing (lines 295-365) and of the back button
\* (line 123)
NavigationTargets(v) ==
    CASE v = "HOME" -> {"CART"} \cup (IF currentUser # NoUser THEN {"MY_ORDERS"} ELSE {})
      [] v = "CART" -> {"HOME", "CHECKOUT"}
      [] v = "CHECKOUT" -> {"CART", "HOME"}
      [] v = "SUCCESS" -> {"HOME"}
      [] v = "ADMIN_DASHBOARD" -> {"HOME"}
      [] v = "MY_ORDERS" -> {"HOME"}
      [] OTHER -> {}

Navigate ==
    /\ phase = "running"
    /\ \E target \in NavigationTargets(view) :
         /\ view' = target
         /\ Rendered(target, CartItems)
    /\ NoOrderStep
    /\ NoGateStep
    /\ NoSessionStep

\* a step at the gate: nothing of the session, the cart or the orders changes
GateStep ==
    /\ phase = "running"
    /\ NoOrderStep
    /\ NoSessionStep

\* lines 152-154, the logo of the HOME view (line 343); the modal of lines
\* 368-387 covers the window while it is shown
HandleLogoClick ==
    /\ view = "HOME"
    /\ ~showPinModal
    /\ taps < MaxTaps
    /\ taps' = taps + 1
    /\ SetGate(RunLogoEffect([Gate EXCEPT !.count = @ + 1], taps + 1))
    /\ streak' = (streak + 1) % 5
    /\ gateLog' = [op |-> "tap", timer |-> 0]
    /\ Rendered(view, CartItems)
    /\ UNCHANGED view
    /\ GateStep

\* line 141: a timer fires, 2 seconds after it was set; its callback sets
\* logoClickCount to 0, and the effect runs again when that changed the count
LogoTimerFires ==
    /\ \E id \in timers :
         /\ SetGate(IF logoClickCount # 0
                    THEN RunLogoEffect([Gate EXCEPT !.count = 0, !.timers = @ \ {id}], taps)
                    ELSE [Gate EXCEPT !.timers = @ \ {id}])
         /\ streak' = IF id = taps THEN 0 ELSE streak
         /\ gateLog' = [op |-> "timer", timer |-> id]
    /\ IF logoClickCount # 0 THEN Rendered(view, CartItems) ELSE NotRendered
    /\ UNCHANGED <<view, taps>>
    /\ GateStep

\* line 383 (Cancel) and line 121 (the back button while the modal is shown)
ClosePinModal ==
    /\ showPinModal
    /\ showPinModal' = FALSE
    /\ gateLog' = [op |-> "close", timer |-> 0]
    /\ Rendered(view, CartItems)
    /\ UNCHANGED <<view, logoClickCount, timers, armed, taps, prompts, streak>>
    /\ GateStep

\* lines 250-256 with the right PIN; a wrong one changes no state (line 257)
HandleAdminLogin ==
    /\ showPinModal
    /\ showPinModal' = FALSE
    /\ view' = "ADMIN_DASHBOARD"
    /\ gateLog' = [op |-> "unlock", timer |-> 0]
    /\ Rendered("ADMIN_DASHBOARD", CartItems)
    /\ UNCHANGED <<logoClickCount, timers, armed, taps, prompts, streak>>
    /\ GateStep

----------------------------------------------------------------------------

Init ==
    /\ phase = "constructed"
    /\ currentUser = NoUser
    /\ view = "LOGIN"
    /\ channels = {}
    /\ subscription = 0
    /\ chanLog = <<>>
    /\ event = NoEvent
    /\ dispatched = <<>>
    /\ arrs = << <<>> >>
    /\ objs = <<>>
    /\ cart = 1
    /\ tasks = [t \in TaskIds |-> IdleTask]
    /\ orders = <<>>
    /\ persisted = <<>>
    /\ lastOrder = 0
    /\ lastOp = NoOp
    /\ deliveryFee = 20
    /\ shown = NotShown
    /\ notifs = <<>>
    /\ logoClickCount = 0
    /\ showPinModal = FALSE
    /\ timers = {}
    /\ armed = 0
    /\ taps = 0
    /\ prompts = 0
    /\ streak = 0
    /\ gateLog = NoGateOp

Next ==
    \/ InitialLoad
    \/ HandleLoginSuccess
    \/ HandleLogout
    \/ Unmount
    \/ RealtimeEvent
    \/ ScheduleResolves
    \/ ScheduleRejects
    \/ NotificationFires

Spec == Init /\ [][Next]_vars

\* A session at the HOME view with an empty cart: the state InitialLoad leaves
\* when the store holds a saved user.
InitHome ==
    /\ phase = "running"
    /\ currentUser = "asha"
    /\ view = "HOME"
    /\ channels = {[id |-> 1, user |-> "asha"]}
    /\ subscription = 1
    /\ chanLog = <<"subscribe">>
    /\ event = NoEvent
    /\ dispatched = <<>>
    /\ arrs = << <<>> >>
    /\ objs = <<>>
    /\ cart = 1
    /\ tasks = [t \in TaskIds |-> IdleTask]
    /\ orders = <<>>
    /\ persisted = <<>>
    /\ lastOrder = 0
    /\ lastOp = NoOp
    /\ deliveryFee = 20
    /\ shown = NotShown
    /\ notifs = <<>>
    /\ logoClickCount = 0
    /\ showPinModal = FALSE
    /\ timers = {}
    /\ armed = 0
    /\ taps = 0
    /\ prompts = 0
    /\ streak = 0
    /\ gateLog = NoGateOp

\* one order submission with its side effects and the store's answer
NextOrder ==
    \/ Navigate
    \/ AddToCart
    \/ FirstPlaceOrder
    \/ SideEffectResolves
    \/ SideEffectRejects
    \/ ResumePlaceOrder
    \/ PersistSettles

SpecOrder == InitHome /\ [][NextOrder]_vars

\* The event loop runs the continuation of an await once the awaited promise
\* has settled.  Nothing makes a plugin settle its promise.
LiveOrder == SpecOrder /\ \A t \in TaskIds : WF_vars(Resume(t))

\* the cart operations around one order submission
NextCart ==
    \/ Navigate
    \/ AddToCart
    \/ UpdateCartQuantity
    \/ FirstPlaceOrder
    \/ SideEffectResolves
    \/ SideEffectRejects
    \/ ResumePlaceOrder

SpecCart == InitHome /\ [][NextCart]_vars

\* one order after the other, each submission run to its end before the next
NextReorder ==
    \/ Navigate
    \/ AddToCart
    \/ PlaceOrderWhenIdle
    \/ SideEffectResolves
    \/ ResumePlaceOrder

SpecReorder == InitHome /\ [][NextReorder]_vars

\* submissions that can overlap: the Checkout view stays up, with the same
\* onPlaceOrder, while an invocation is suspended
NextSubmit ==
    \/ Navigate
    \/ AddToCart
    \/ HandlePlaceOrder
    \/ SideEffectResolves
    \/ ResumePlaceOrder

SpecSubmit == InitHome /\ [][NextSubmit]_vars

\* the logo taps, their timer and the PIN prompt
NextGate ==
    \/ Navigate
    \/ HandleLogoClick
    \/ LogoTimerFires
    \/ ClosePinModal
    \/ HandleAdminLogin

SpecGate == InitHome /\ [][NextGate]_vars

\* one checkout while the store's delivery fee can change
NextCheckout ==
    \/ Navigate
    \/ AddToCart
    \/ DeliveryFeeChanges
    \/ FirstPlaceOrder
    \/ SideEffectResolves
    \/ ResumePlaceOrder

SpecCheckout == InitHome /\ [][NextCheckout]_vars

----------------------------------------------------------------------------
(* Realtime watcher properties *)

\* C1: a notification is dispatched for an order-update event only when the
\* phone embedded in the new record is the phone of the user who is current
\* while the event is handled; an event carrying another phone dispatches
\* nothing, also when its status changed.
C1_OwnershipFilter ==
    dispatched # <<>> =>
        /\ currentUser # NoUser
        /\ event.phone = Phone(currentUser)
        /\ \A i \in DOMAIN dispatched : dispatched[i].phone = Phone(currentUser)

\* a status-changing event for another customer's order arrived while a user
\* was logged in, and nothing was dispatched
C1_Witness ==
    /\ currentUser = "ravi"
    /\ channels # {}
    /\ event.phone = "p1"
    /\ event.oldStatus = "PENDING"
    /\ event.newStatus = "CONFIRMED"
    /\ dispatched = <<>>

\* C2: no notification is dispatched for an event whose old and new status
\* are equal, whatever the phone and the status value.
C2_NoDispatchWithoutTransition ==
    event.oldStatus = event.newStatus => dispatched = <<>>

\* an event for the current user's own order with an unchanged status arrived
C2_Witness ==
    /\ currentUser = "asha"
    /\ channels # {}
    /\ event.phone = "p1"
    /\ event.oldStatus = "CONFIRMED"
    /\ event.newStatus = "CONFIRMED"
    /\ dispatched = <<>>

RECURSIVE PeakOpen(_, _)
\* the largest number of channels open at any point while the client calls of
\* `log` are made one after the other, starting with n channels open
PeakOpen(n, log) ==
    IF log = <<>> THEN n
    ELSE LET m == IF Head(log) = "subscribe" THEN n + 1 ELSE n - 1
             rest == PeakOpen(m, Tail(log))
         IN  IF rest > n THEN rest ELSE n

\* C3: at most one realtime channel is open at any time, also in the middle
\* of a step that replaces it (the prior channel is removed before the new one
\* is subscribed), and none is open while there is no current user.
C3_SingleSubscription ==
    [][ /\ Cardinality(channels') <= 1
        /\ currentUser' = NoUser => channels' = {}
        /\ PeakOpen(Cardinality(channels), chanLog') <= 1 ]_vars

\* a login while a channel was open replaced it: removed, then subscribed
C3_Witness ==
    /\ chanLog = <<"removeChannel", "subscribe">>
    /\ Cardinality(channels) = 1
    /\ \A c \in channels : c.user = currentUser /\ c.id = subscription

Inactive == currentUser = NoUser \/ phase = "unmounted"

\* C4: the step that makes the session Inactive (logout or teardown) removes
\* the channel with exactly one removeChannel call; while the session stays
\* Inactive no channel is open, no further removeChannel call is made, and an
\* arriving event reaches no callback and dispatches nothing.
C4_TeardownOnce ==
    [][ /\ (~Inactive /\ Inactive') => (chanLog' = <<"removeChannel">> /\ channels' = {})
        /\ (Inactive /\ Inactive') =>
              (chanLog' = <<>> /\ channels' = {} /\ dispatched' = <<>>) ]_vars

\* after teardown an event for the user of the ended session arrived and
\* dispatched nothing
C4_Witness ==
    /\ phase = "unmounted"
    /\ currentUser = "asha"
    /\ event.phone = "p1"
    /\ event.oldStatus = "PENDING"
    /\ event.newStatus = "DELIVERED"
    /\ dispatched = <<>>

----------------------------------------------------------------------------
(* Order submission properties *)

Ran(t, op) == \E i \in DOMAIN tasks[t].trace : tasks[t].trace[i] = op

Before(t, op1, op2) ==
    \A i \in DOMAIN tasks[t].trace :
        tasks[t].trace[i] = op2 => \E j \in 1..(i - 1) : tasks[t].trace[j] = op1

Items(a, o, c) == Deref([arrs |-> a, objs |-> o], c)

\* C5: an invocation of handlePlaceOrder has cleared the cart or switched the
\* view to SUCCESS only if the store has confirmed its order as saved.
C5_ClearOnlyWhenSaved ==
    \A t \in TaskIds :
        (Ran(t, "setCart") \/ Ran(t, "setView")) => persisted[tasks[t].order] = "saved"

\* C6: in every invocation Store.saveOrder and Store.saveLastOrder are called
\* before setCart([]) and before setView('SUCCESS'), and the order handed to
\* the store has status PENDING.
C6_SaveBeforeClear ==
    \A t \in TaskIds :
        /\ Before(t, "saveOrder", "setCart")
        /\ Before(t, "saveLastOrder", "setCart")
        /\ Before(t, "saveOrder", "setView")
        /\ Before(t, "saveLastOrder", "setView")
        /\ Ran(t, "saveOrder") =>
              /\ tasks[t].order \in DOMAIN orders
              /\ orders[tasks[t].order].status = "PENDING"
              /\ persisted[tasks[t].order] # "notinvoked"
        /\ Ran(t, "setCart") => (persisted[tasks[t].order] # "notinvoked" /\ lastOrder # 0)

\* an invocation for a non-empty cart has run to its end: the order is with
\* the store, the cart is empty and the view is SUCCESS
C6_Witness ==
    \E t \in TaskIds :
        /\ tasks[t].pc = Finished
        /\ Deref(Heap, orders[tasks[t].order].items) # <<>>
        /\ CartItems = <<>>
        /\ view = "SUCCESS"
        /\ lastOp.op = "clear"

\* C7: a failed haptic call, a failed scheduling call or a failed handoff
\* stops nothing: an invocation that has ended has attempted all three, has
\* cleared the cart and switched the view, and its order is still the one
\* handed to the store; the invocation rejects only for a failed handoff,
\* which is its last statement.
C7_SideEffectsIndependent ==
    \A t \in TaskIds :
        /\ tasks[t].pc = Finished =>
              /\ tasks[t].haptic # "none"
              /\ tasks[t].sched # "none"
              /\ tasks[t].handoff # "none"
              /\ Ran(t, "setCart")
              /\ Ran(t, "setView")
        /\ tasks[t].rejected => tasks[t].handoff = "failed"
        /\ tasks[t].order # 0 =>
              /\ tasks[t].order \in DOMAIN orders
              /\ persisted[tasks[t].order] # "notinvoked"

\* an invocation whose three side effects all failed has ended with the cart
\* cleared and the view switched
C7_Witness ==
    \E t \in TaskIds :
        /\ tasks[t].pc = Finished
        /\ tasks[t].haptic = "failed"
        /\ tasks[t].sched = "failed"
        /\ tasks[t].handoff = "failed"
        /\ lastOp.op = "clear"
        /\ view = "SUCCESS"

\* C8: once an invocation has called Store.saveOrder it eventually clears the
\* cart and switches the view to SUCCESS, whether or not the haptic and the
\* scheduling call ever complete.
C8_SuccessWithoutWaiting ==
    \A t \in TaskIds :
        Ran(t, "saveOrder") ~> (Ran(t, "setCart") /\ Ran(t, "setView"))

\* C9: the entries of a created order (ids, quantities, order) are the same
\* after every later step, whatever is done to the cart.
C9_OrderItemsSnapshot ==
    [][ \A k \in DOMAIN orders :
            /\ k \in DOMAIN orders'
            /\ Items(arrs', objs', orders'[k].items) = Items(arrs, objs, orders[k].items) ]_vars

\* while the invocation is suspended the customer adds the ordered item once
\* more: the cart holds two, the order still one
C9_Witness ==
    /\ Len(orders) = 1
    /\ Deref(Heap, orders[1].items) = <<[id |-> "dosa", quantity |-> 1]>>
    /\ CartItems = <<[id |-> "dosa", quantity |-> 2]>>
    /\ lastOp.op = "addToCart"

\* C10: after every step each entry of the cart has quantity at least 1, and
\* an updateCartQuantity that takes an entry's quantity to 0 or below removes
\* the entry in that same update.
C10_PositiveQuantities ==
    [][ /\ \A i \in DOMAIN Items(arrs', objs', cart') :
              Items(arrs', objs', cart')[i].quantity >= 1
        /\ lastOp'.op = "updateQuantity" =>
              /\ lastOp'.before = QuantityOf(CartItems, lastOp'.id)
              /\ (lastOp'.before > 0 /\ lastOp'.before + lastOp'.delta <= 0) =>
                    \A i \in DOMAIN Items(arrs', objs', cart') :
                        Items(arrs', objs', cart')[i].id # lastOp'.id ]_vars

\* an entry of quantity 1 was updated by -2: it is gone, the other entry stays
C10_Witness ==
    /\ lastOp = [op |-> "updateQuantity", id |-> "dosa", delta |-> 0 - 2, before |-> 1]
    /\ CartItems = <<[id |-> "idli", quantity |-> 2]>>

----------------------------------------------------------------------------
(* Cart aggregator properties *)

\* the entries of `items` whose id is not `itemId`, in order
Others(items, itemId) == SelectSeq(items, LAMBDA e : e.id # itemId)

\* C11: after every step no two entries of the cart have the same id.
C11_UniqueIds ==
    \A i, j \in DOMAIN CartItems : CartItems[i].id = CartItems[j].id => i = j

\* an item already in a cart of two entries was added again: still two entries
C11_Witness ==
    /\ lastOp.op = "addToCart"
    /\ lastOp.before = 1
    /\ Len(CartItems) = 2
    /\ CartItems[1].id # CartItems[2].id

\* C12: an addToCart of an id the cart holds adds exactly 1 to that entry and
\* leaves the length, the positions and the other quantities as they were; an
\* addToCart of an id the cart does not hold appends [id, quantity 1] at the
\* end and leaves every existing entry where and as it was.
C12_AddToCart ==
    [][ lastOp'.op = "addToCart" =>
          LET old == CartItems
              new == Items(arrs', objs', cart')
              id == lastOp'.id
          IN  IF \E i \in DOMAIN old : old[i].id = id
              THEN /\ Len(new) = Len(old)
                   /\ \A i \in DOMAIN old :
                        /\ new[i].id = old[i].id
                        /\ new[i].quantity = IF old[i].id = id THEN old[i].quantity + 1
                                             ELSE old[i].quantity
              ELSE new = Append(old, [id |-> id, quantity |-> 1]) ]_vars

\* two addToCart calls with the same item on the empty cart: one entry of quantity 2
C12_Witness ==
    /\ lastOp = [op |-> "addToCart", id |-> "dosa", delta |-> 1, before |-> 1]
    /\ CartItems = <<[id |-> "dosa", quantity |-> 2]>>
    /\ orders = <<>>

\* C13: an updateCartQuantity for an id the cart does not hold leaves the
\* cart's entries as they were; one for an id the cart holds leaves every
\* entry with another id with its quantity and in its relative order.
C13_UpdateFrame ==
    [][ lastOp'.op = "updateQuantity" =>
          LET old == CartItems
              new == Items(arrs', objs', cart')
              id == lastOp'.id
          IN  /\ Others(new, id) = Others(old, id)
              /\ (\A i \in DOMAIN old : old[i].id # id) => new = old ]_vars

\* the first of two entries was taken out by an update; the second is as it was
C13_Witness ==
    /\ lastOp = [op |-> "updateQuantity", id |-> "dosa", delta |-> 0 - 1, before |-> 1]
    /\ CartItems = <<[id |-> "idli", quantity |-> 1]>>

----------------------------------------------------------------------------
(* Pricing properties *)

RECURSIVE SumOfProducts(_)
\* the sum of price * quantity over the entries
SumOfProducts(items) ==
    IF items = <<>> THEN 0
    ELSE SumOfProducts(SubSeq(items, 1, Len(items) - 1))
           + Price(items[Len(items)].id) * items[Len(items)].quantity

\* the integer nearest to num / den, the upper one when num / den lies halfway
NearestHalvesUp(num, den) ==
    CHOOSE k \in 0..(num + 1) : (2 * k - 1) * den <= 2 * num /\ 2 * num < (2 * k + 1) * den

\* itemTotal + 5 + deliveryFee + round(itemTotal * 0.05)
StatedTotal(items, fee) ==
    SumOfProducts(items) + 5 + fee + NearestHalvesUp(SumOfProducts(items) * 5, 100)

\* C14: the totalAmount of every created order, and the total every render of
\* the CHECKOUT view displays, is itemTotal + 5 + deliveryFee +
\* round(itemTotal * 0.05) for the entries and the fee it was computed from,
\* round being to the nearest integer with halves up.
C14_TotalFormula ==
    /\ \A t \in TaskIds :
          tasks[t].order # 0 =>
              orders[tasks[t].order].totalAmount
                = StatedTotal(Deref(Heap, orders[tasks[t].order].items), tasks[t].fee)
    /\ shown # NotShown => \E fee \in DeliveryFees : shown = StatedTotal(CartItems, fee)

\* one entry of price 100 and quantity 2 ordered with delivery fee 20: 235
C14_Witness ==
    \E t \in TaskIds :
        /\ tasks[t].order # 0
        /\ Deref(Heap, orders[tasks[t].order].items) = <<[id |-> "dosa", quantity |-> 2]>>
        /\ tasks[t].fee = 20
        /\ orders[tasks[t].order].totalAmount = 235

\* C15: the totalAmount of an order created from the CHECKOUT view is the
\* total that view displayed when the order was placed.
C15_TotalsAgree ==
    [][ \A k \in DOMAIN orders' :
            k \notin DOMAIN orders => orders'[k].totalAmount = shown ]_vars

----------------------------------------------------------------------------
(* Notification properties *)

\* the event handled by the step that leads to the state passes both filters
\* of a session that has a user and is mounted
Passes(e, user, ph) ==
    /\ user # NoUser
    /\ ph = "running"
    /\ e.phone = Phone(user)
    /\ e.oldStatus # e.newStatus

StatedTitle(status) ==
    IF status = "CONFIRMED" THEN "Order Confirmed!"
    ELSE IF status = "DELIVERED" THEN "Order Delivered!"
    ELSE IF status = "CANCELLED" THEN "Order Cancelled"
    ELSE "Order Update"

StatedBody(status) ==
    IF status = "CONFIRMED" THEN "We've received your order and are preparing it."
    ELSE IF status = "DELIVERED" THEN "Your tiffins have been delivered. Enjoy your meal!"
    ELSE IF status = "CANCELLED"
         THEN "Your order was cancelled. Please contact support if this was a mistake."
    ELSE "Your order status has changed to " \o status

\* C16: a step that handles an event passing both filters dispatches exactly
\* one notification, with the title and body that belong to the new status,
\* and makes exactly one schedule call for it; the success haptic of a
\* notification has been triggered exactly when its schedule call has
\* completed, never before.
C16_OneNotificationPerEvent ==
    [][ /\ Passes(event', currentUser', phase') =>
              /\ Len(dispatched') = 1
              /\ dispatched'[1].title = StatedTitle(event'.newStatus)
              /\ dispatched'[1].body = StatedBody(event'.newStatus)
              /\ Len(notifs') = Len(notifs) + 1
              /\ SubSeq(notifs', 1, Len(notifs)) = notifs
              /\ notifs'[Len(notifs')].state = "requested"
        /\ ~Passes(event', currentUser', phase') => Len(notifs') <= Len(notifs)
        /\ \A i \in DOMAIN notifs' :
              notifs'[i].haptic <=> notifs'[i].state = "pending" ]_vars

\* the user's order went to CONFIRMED: one notification with that title is
\* dispatched, while an earlier one is scheduled and has had its haptic
C16_Witness ==
    /\ currentUser = "asha"
    /\ event.phone = "p1"
    /\ event.newStatus = "CONFIRMED"
    /\ Len(dispatched) = 1
    /\ dispatched[1].title = "Order Confirmed!"
    /\ Len(notifs) = 2
    /\ notifs[1].state = "pending"
    /\ notifs[1].haptic
    /\ notifs[2].state = "requested"
    /\ ~notifs[2].haptic

\* the notifications that are scheduled and have not fired
PendingNotifications ==
    SelectSeq(notifs, LAMBDA n : n.state = "pending") \o ScheduledByOrders

\* C17: no two notifications that are pending at the same time have the same id.
C17_UniquePendingIds ==
    \A i, j \in DOMAIN PendingNotifications :
        i # j => PendingNotifications[i].id # PendingNotifications[j].id

----------------------------------------------------------------------------
(* Overlapping submissions *)

\* C20: no two orders handed to Store.saveOrder hold the entries of the same
\* checkout, that is the same non-empty cart array: an invocation started
\* while an earlier one is suspended saves no second order.
C20_OneOrderPerCheckout ==
    \A j, k \in DOMAIN orders :
        (/\ j # k
         /\ persisted[j] # "notinvoked"
         /\ persisted[k] # "notinvoked"
         /\ arrs[orders[j].items] # <<>>) => orders[j].items # orders[k].items

----------------------------------------------------------------------------
(* Admin gate properties *)

\* C18: the counter rests at 0..4; the prompt is shown by a step exactly when
\* that step is the 5th logo tap of a run without a 2-second gap, it is shown
\* once by that tap, and that tap leaves the counter at 0; no other step shows it.
C18_PromptOnFifthTap ==
    [][ /\ logoClickCount' \in 0..4
        /\ prompts' \in {prompts, prompts + 1}
        /\ (prompts' = prompts + 1) <=> (gateLog'.op = "tap" /\ streak = 4)
        /\ (prompts' = prompts + 1) => (~showPinModal /\ showPinModal' /\ logoClickCount' = 0)
        /\ (~showPinModal /\ showPinModal') => prompts' = prompts + 1 ]_vars

\* the fifth tap in a row has just shown the prompt for the first time
C18_Witness ==
    /\ gateLog.op = "tap"
    /\ taps = 5
    /\ prompts = 1
    /\ showPinModal
    /\ logoClickCount = 0
    /\ timers = {}

\* C19: at most one timer is pending; after a tap that leaves the counter
\* above 0 it is the timer of that tap, any earlier one being cancelled; a
\* counter above 0 always has its timer pending; a timer that fires is the one
\* of the latest tap, and it takes the counter to 0 without showing the prompt.
C19_SingleInactivityTimer ==
    [][ /\ Cardinality(timers') <= 1
        /\ timers' \subseteq {taps'}
        /\ logoClickCount' > 0 => timers' = {taps'}
        /\ gateLog'.op = "timer" =>
              /\ gateLog'.timer = taps
              /\ logoClickCount > 0
              /\ logoClickCount' = 0
              /\ timers' = {}
              /\ prompts' = prompts
              /\ showPinModal' = showPinModal ]_vars

\* three taps, then two seconds without a tap: the timer of the third tap has
\* fired and the counter is back at 0, no prompt shown
C19_Witness ==
    /\ gateLog = [op |-> "timer", timer |-> 3]
    /\ taps = 3
    /\ logoClickCount = 0
    /\ prompts = 0
    /\ ~showPinModal

====
